---------------------------- MODULE Spec2Model ----------------------------
(***************************************************************************)
(* Model of the mesh processing tools of Morphoviewer                      *)
(* (src/src/mesh_tools.js) and of the load callbacks of viewData           *)
(* (src/src/morphoviewer.js).                                              *)
(*                                                                         *)
(* Numbers.  A JavaScript number is modelled exactly, as a rational        *)
(* [n |-> numerator, d |-> denominator] in lowest terms with d > 0.        *)
(* The three non-finite values are the records with d = 0:                 *)
(*   [n |-> 1, d |-> 0] = Infinity, [n |-> -1, d |-> 0] = -Infinity,       *)
(*   [n |-> 0, d |-> 0] = NaN.                                             *)
(* The value `undefined` read from a missing array element is              *)
(*   [n |-> 0, d |-> -1].                                                  *)
(* The sign of zero is not modelled.  Rounding is modelled only where the  *)
(* azimuth of a normal is computed (surfaceOrientation).                   *)
(*                                                                         *)
(* A square root is kept as the record [sgn |-> s, sq |-> q], standing for *)
(* s * sqrt(q) with s in {-1, 0, 1} and q a number >= 0.                   *)
(*                                                                         *)
(* Arrays.  A JavaScript array is a sequence; JavaScript index i is        *)
(* position i + 1 of the sequence.  A missing array element that should    *)
(* be an array itself (a hole of `new Array(n)`) is the empty sequence.    *)
(***************************************************************************)
EXTENDS Integers, Sequences, FiniteSets, TLC

VARIABLES
    verts,      \* the point array (array of [x, y, z] triplets)
    ind,        \* the triangle list (array of index triplets)
    vals,       \* a per-vertex scalar array (input of unwrapArray)
    uverts,     \* an unwrapped (flat) coordinate array
    unorms,     \* an unwrapped (flat) normal array
    op,         \* the operation that ran last
    ret,        \* what it returned
    locals,     \* the values of its local variables when it returned
    err         \* the exception it threw, or "none"

vars == <<verts, ind, vals, uverts, unorms, op, ret, locals, err>>

-----------------------------------------------------------------------------
(* Bounds of the model *)

MaxVerts == 3
MaxTris == 2
MaxCoord == 0
MaxUnwrapped == 2
MaxPoints == 2
MaxSlots == 3

-----------------------------------------------------------------------------
(* Numbers *)

Abs(i) == IF i < 0 THEN -i ELSE i

Sign(i) == IF i < 0 THEN -1 ELSE IF i > 0 THEN 1 ELSE 0

RECURSIVE Gcd(_, _)
Gcd(a, b) == IF b = 0 THEN a ELSE Gcd(b, a % b)

\* the number n / d, d # 0, in lowest terms
Num(n, d) ==
    LET g == Gcd(Abs(n), Abs(d))
    IN  [n |-> (Sign(d) * n) \div g, d |-> Abs(d) \div g]

Int2Num(i) == [n |-> i, d |-> 1]

NaN == [n |-> 0, d |-> 0]
PosInf == [n |-> 1, d |-> 0]
NegInf == [n |-> -1, d |-> 0]
UndefinedNum == [n |-> 0, d |-> -1]

Zero == Int2Num(0)

One == Int2Num(1)

IsFinite(a) == a.d > 0

\* undefined converts to NaN in arithmetic
ToNumber(a) == IF a.d < 0 THEN NaN ELSE a

NNeg(a) == LET x == ToNumber(a) IN [n |-> -x.n, d |-> x.d]

\* the operands are finite
BothFinite(a, b) == a.d > 0 /\ b.d > 0

NAdd(a, b) ==
    IF BothFinite(a, b)
    THEN (IF a.d = b.d THEN Num(a.n + b.n, a.d)
          ELSE LET g == Gcd(a.d, b.d)
               IN  Num(a.n * (b.d \div g) + b.n * (a.d \div g), (a.d \div g) * b.d))
    ELSE LET x == ToNumber(a)
             y == ToNumber(b)
         IN  IF x = NaN \/ y = NaN THEN NaN
             ELSE IF x.d = 0 /\ y.d = 0 THEN (IF x.n = y.n THEN x ELSE NaN)
             ELSE IF x.d = 0 THEN x
             ELSE y

NSub(a, b) == NAdd(a, NNeg(b))

NMul(a, b) ==
    IF BothFinite(a, b)
    THEN (IF a.d = 1 /\ b.d = 1 THEN [n |-> a.n * b.n, d |-> 1]
          ELSE LET g == Gcd(Abs(a.n), b.d)
                   h == Gcd(Abs(b.n), a.d)
               IN  Num((a.n \div g) * (b.n \div h), (a.d \div h) * (b.d \div g)))
    ELSE LET x == ToNumber(a)
             y == ToNumber(b)
         IN  IF x = NaN \/ y = NaN THEN NaN
             ELSE IF x.n = 0 \/ y.n = 0 THEN NaN
             ELSE [n |-> Sign(x.n) * Sign(y.n), d |-> 0]

NDiv(a, b) ==
    IF BothFinite(a, b)
    THEN (IF b.n = 0
          THEN [n |-> Sign(a.n), d |-> 0]
          ELSE LET g == Gcd(Abs(a.n), Abs(b.n))
                   h == Gcd(a.d, b.d)
               IN  Num((a.n \div g) * (b.d \div h), (a.d \div h) * (b.n \div g)))
    ELSE LET x == ToNumber(a)
             y == ToNumber(b)
         IN  IF x = NaN \/ y = NaN THEN NaN
             ELSE IF x.d = 0 /\ y.d = 0 THEN NaN
             ELSE IF x.d = 0 THEN [n |-> x.n * (IF y.n < 0 THEN -1 ELSE 1), d |-> 0]
             ELSE Zero

\* a < b; false when either side is NaN.  Numbers with different integer
\* parts are compared by these.
NLt(a, b) ==
    IF BothFinite(a, b)
    THEN (IF a.n \div a.d # b.n \div b.d
          THEN a.n \div a.d < b.n \div b.d
          ELSE LET g == Gcd(a.d, b.d)
               IN  a.n * (b.d \div g) < b.n * (a.d \div g))
    ELSE LET x == ToNumber(a)
             y == ToNumber(b)
         IN  IF x = NaN \/ y = NaN THEN FALSE
             ELSE IF x.d = 0 /\ y.d = 0 THEN x.n < y.n
             ELSE IF x.d = 0 THEN x.n < 0
             ELSE y.n > 0

NGt(a, b) == NLt(b, a)

\* Math.sqrt, kept symbolic
Sqrt(a) ==
    LET x == ToNumber(a)
    IN  IF x = NaN \/ NLt(x, Zero) THEN [sgn |-> 0, sq |-> NaN]
        ELSE [sgn |-> (IF x = Zero THEN 0 ELSE 1), sq |-> x]

-----------------------------------------------------------------------------
(* Arrays *)

\* a[i] of JavaScript, for an array of numbers
At(a, i) == IF i >= 0 /\ i < Len(a) THEN a[i + 1] ELSE UndefinedNum

\* whether a[i] is an element of the array
InRange(a, i) == i >= 0 /\ i < Len(a)

RECURSIVE SumAxis(_, _, _)
\* the sum of coordinate k of the first m points
SumAxis(points, k, m) ==
    IF m = 0 THEN Zero ELSE NAdd(SumAxis(points, k, m - 1), points[m][k])

-----------------------------------------------------------------------------
(* centerOfVolume, centerPointCloud *)

centerOfVolume(points) ==
    LET len == Int2Num(Len(points))
    IN  << NDiv(SumAxis(points, 1, Len(points)), len),
           NDiv(SumAxis(points, 2, Len(points)), len),
           NDiv(SumAxis(points, 3, Len(points)), len) >>

\* a copy-and-paste slip: the x component of the centroid subtracted on every axis
centerPointCloud_mut(points) ==
    LET cov == centerOfVolume(points)
    IN  [i \in 1..Len(points) |->
            << NSub(points[i][1], cov[1]),
               NSub(points[i][2], cov[1]),
               NSub(points[i][3], cov[1]) >>]

centerPointCloud(points) ==
    LET cov == centerOfVolume(points)
    IN  [i \in 1..Len(points) |->
            << NSub(points[i][1], cov[1]),
               NSub(points[i][2], cov[2]),
               NSub(points[i][3], cov[3]) >>]

-----------------------------------------------------------------------------
(* getAabb *)

RECURSIVE MinAxis(_, _, _)
\* the running minimum of coordinate k after the first m loop iterations
MinAxis(points, k, m) ==
    IF m = 0 THEN PosInf
    ELSE LET prev == MinAxis(points, k, m - 1)
         IN  IF NLt(points[m][k], prev) THEN points[m][k] ELSE prev

RECURSIVE MaxAxis(_, _, _)
\* the running maximum of coordinate k after the first m loop iterations
MaxAxis(points, k, m) ==
    IF m = 0 THEN NegInf
    ELSE LET prev == MaxAxis(points, k, m - 1)
         IN  IF NGt(points[m][k], prev) THEN points[m][k] ELSE prev

Two == Int2Num(2)

\* xmin+xmax / 2.0: the division binds tighter than the addition
AabbCenterAxis(min, max) == NAdd(min, NDiv(max, Two))

\* the z extent left out of the diagonal
AabbSqrDist_mut(min, max) ==
    LET dx == NSub(max[1], min[1])
        dy == NSub(max[2], min[2])
    IN  NAdd(NMul(dx, dx), NMul(dy, dy))

AabbSqrDist(min, max) ==
    LET dx == NSub(max[1], min[1])
        dy == NSub(max[2], min[2])
        dz == NSub(max[3], min[3])
    IN  NAdd(NAdd(NMul(dx, dx), NMul(dy, dy)), NMul(dz, dz))

getAabb(points) ==
    LET n == Len(points)
        min == << MinAxis(points, 1, n), MinAxis(points, 2, n), MinAxis(points, 3, n) >>
        max == << MaxAxis(points, 1, n), MaxAxis(points, 2, n), MaxAxis(points, 3, n) >>
    IN  [ min |-> min,
          max |-> max,
          center |-> << AabbCenterAxis(min[1], max[1]),
                        AabbCenterAxis(min[2], max[2]),
                        AabbCenterAxis(min[3], max[3]) >>,
          length |-> Sqrt(AabbSqrDist(min, max)) ]

-----------------------------------------------------------------------------
(* unwrapVectorArray, unwrapArray *)

\* whether the three indices of triangle t are elements of array v
TriInRange(v, t) == InRange(v, t[1]) /\ InRange(v, t[2]) /\ InRange(v, t[3])

\* v[inds[i][k]] is undefined for some corner of some triangle, so reading a
\* component of it (or calling push on it) throws a TypeError
DerefThrows(v, inds) == \E i \in 1..Len(inds) : ~ TriInRange(v, inds[i])

\* the coordinates pushed in z, y, x order
Coords3_mut(v, i) == << v[i + 1][3], v[i + 1][2], v[i + 1][1] >>

\* the three coordinates of v[i], in x, y, z order
Coords3(v, i) == << v[i + 1][1], v[i + 1][2], v[i + 1][3] >>

RECURSIVE UnwrapVectorLoop(_, _, _)
\* verts after the first m iterations of the loop
UnwrapVectorLoop(v, inds, m) ==
    IF m = 0 THEN << >>
    ELSE UnwrapVectorLoop(v, inds, m - 1)
            \o Coords3(v, inds[m][1])
            \o Coords3(v, inds[m][2])
            \o Coords3(v, inds[m][3])

unwrapVectorArray(v, inds) ==
    IF DerefThrows(v, inds)
    THEN [err |-> "TypeError", val |-> << >>]
    ELSE [err |-> "none", val |-> UnwrapVectorLoop(v, inds, Len(inds))]

RECURSIVE UnwrapLoop(_, _, _)
\* values after the first m iterations of the loop
UnwrapLoop(v, inds, m) ==
    IF m = 0 THEN << >>
    ELSE UnwrapLoop(v, inds, m - 1)
            \o << At(v, inds[m][1]), At(v, inds[m][2]), At(v, inds[m][3]) >>

\* a missing element is pushed as undefined; nothing throws
unwrapArray(v, inds) ==
    [err |-> "none", val |-> UnwrapLoop(v, inds, Len(inds))]

-----------------------------------------------------------------------------
(* triangulate *)

\* u[i] of JavaScript, for the flat index array that Delaunay.triangulate returns
IndexAt(u, i) == IF i >= 0 /\ i < Len(u) THEN u[i + 1] ELSE UndefinedNum

RECURSIVE TriangulateLoop(_, _)
\* tris after the first m iterations of the loop
TriangulateLoop(u, m) ==
    IF m = 0 THEN << >>
    ELSE Append(TriangulateLoop(u, m - 1),
                << IndexAt(u, 3 * (m - 1)),
                   IndexAt(u, 3 * (m - 1) + 1),
                   IndexAt(u, 3 * (m - 1) + 2) >>)

\* the index triplets of the flat array unwrapped_tris
triangulate(unwrapped_tris) ==
    [err |-> "none", val |-> TriangulateLoop(unwrapped_tris, (Len(unwrapped_tris) + 2) \div 3)]

-----------------------------------------------------------------------------
(* vec3 *)

Vec3Sub(p, q) == << NSub(p[1], q[1]), NSub(p[2], q[2]), NSub(p[3], q[3]) >>

Vec3Add(p, q) == << NAdd(p[1], q[1]), NAdd(p[2], q[2]), NAdd(p[3], q[3]) >>

Vec3Cross(a, b) ==
    << NSub(NMul(a[2], b[3]), NMul(a[3], b[2])),
       NSub(NMul(a[3], b[1]), NMul(a[1], b[3])),
       NSub(NMul(a[1], b[2]), NMul(a[2], b[1])) >>

Vec3Zero == << Zero, Zero, Zero >>

\* the number x written as a signed square root
ToSurd(x) ==
    IF IsFinite(x) THEN [sgn |-> Sign(x.n), sq |-> NMul(x, x)]
    ELSE [sgn |-> 0, sq |-> NaN]

\* vec3.normalize( n, n ): each component times 1 / sqrt(len) when the squared
\* length len is > 0; otherwise n is left as it is
Vec3Normalize(a) ==
    LET len == NAdd(NAdd(NMul(a[1], a[1]), NMul(a[2], a[2])), NMul(a[3], a[3]))
    IN  IF NGt(len, Zero)
        THEN [k \in 1..3 |-> [sgn |-> Sign(a[k].n), sq |-> NDiv(NMul(a[k], a[k]), len)]]
        ELSE [k \in 1..3 |-> ToSurd(a[k])]

-----------------------------------------------------------------------------
(* faceNormals, faceVectors *)

\* the cross product of the two edge vectors of triangle t
TriCross(v, t) ==
    LET a == Vec3Sub(v[t[2] + 1], v[t[1] + 1])
        b == Vec3Sub(v[t[3] + 1], v[t[1] + 1])
    IN  Vec3Cross(a, b)

\* a slot that already holds a normal is not overwritten: the first triangle wins
Scatter_mut(norms, t, n) ==
    [j \in 1..Len(norms) |->
        IF (j - 1 = t[1] \/ j - 1 = t[2] \/ j - 1 = t[3]) /\ norms[j] = << >>
        THEN n ELSE norms[j]]

\* n written to the slots of the three corners of triangle t
Scatter(norms, t, n) ==
    [j \in 1..Len(norms) |->
        IF j - 1 = t[1] \/ j - 1 = t[2] \/ j - 1 = t[3] THEN n ELSE norms[j]]

\* an array one slot longer than asked for
NewArray_mut(n) == [j \in 1..(n + 1) |-> << >>]

\* new Array( n ): n holes
NewArray(n) == [j \in 1..n |-> << >>]

RECURSIVE FaceNormalsLoop(_, _, _)
\* norms after the first m iterations of the loop
FaceNormalsLoop(v, inds, m) ==
    IF m = 0 THEN NewArray(Len(v))
    ELSE Scatter(FaceNormalsLoop(v, inds, m - 1), inds[m],
                 Vec3Normalize(TriCross(v, inds[m])))

faceNormals(v, inds) ==
    IF DerefThrows(v, inds)
    THEN [err |-> "TypeError", val |-> << >>]
    ELSE [err |-> "none", val |-> FaceNormalsLoop(v, inds, Len(inds))]

RECURSIVE FaceVectorsLoop(_, _, _)
\* norms after the first m iterations of the loop
FaceVectorsLoop(v, inds, m) ==
    IF m = 0 THEN NewArray(Len(v))
    ELSE Scatter(FaceVectorsLoop(v, inds, m - 1), inds[m], TriCross(v, inds[m]))

faceVectors(v, inds) ==
    IF DerefThrows(v, inds)
    THEN [err |-> "TypeError", val |-> << >>]
    ELSE [err |-> "none", val |-> FaceVectorsLoop(v, inds, Len(inds))]

-----------------------------------------------------------------------------
(* vertexNormals *)

RECURSIVE AdjacencyLoop_mut(_, _, _)
\* the first corner of a triangle receives only one of its two neighbours
AdjacencyLoop_mut(v, inds, m) ==
    IF m = 0 THEN [j \in 1..Len(v) |-> << >>]
    ELSE LET t == inds[m]
             a0 == AdjacencyLoop_mut(v, inds, m - 1)
             a1 == [a0 EXCEPT ![t[1] + 1] = @ \o << t[2] >>]
             a2 == [a1 EXCEPT ![t[2] + 1] = @ \o << t[1], t[3] >>]
         IN  [a2 EXCEPT ![t[3] + 1] = @ \o << t[1], t[2] >>]

RECURSIVE AdjacencyLoop(_, _, _)
\* adjacency after the first m iterations of the loop over the triangles
AdjacencyLoop(v, inds, m) ==
    IF m = 0 THEN [j \in 1..Len(v) |-> << >>]
    ELSE LET t == inds[m]
             a0 == AdjacencyLoop(v, inds, m - 1)
             a1 == [a0 EXCEPT ![t[1] + 1] = @ \o << t[2], t[3] >>]
             a2 == [a1 EXCEPT ![t[2] + 1] = @ \o << t[1], t[3] >>]
         IN  [a2 EXCEPT ![t[3] + 1] = @ \o << t[1], t[2] >>]

RECURSIVE SumFaceVecs(_, _, _)
\* n after the first m iterations of the inner loop over one adjacency entry list
SumFaceVecs(faceVecs, adj, m) ==
    IF m = 0 THEN Vec3Zero
    ELSE Vec3Add(SumFaceVecs(faceVecs, adj, m - 1), faceVecs[adj[m] + 1])

\* the sums of the second loop: for vertex i the face vectors found at the
\* indices that adjacency[i] lists
SumLoop(v, adjacency, faceVecs) ==
    [ adjacency |-> adjacency,
      faceVecs |-> faceVecs,
      sums |-> [j \in 1..Len(v) |->
                   SumFaceVecs(faceVecs, adjacency[j], Len(adjacency[j]))] ]

\* the local variables of vertexNormals when it returns
VertexNormalsLocals(v, inds) ==
    SumLoop(v, AdjacencyLoop(v, inds, Len(inds)), faceVectors(v, inds).val)

\* the returned array: every sum normalized
NormalizeSums(v, l) ==
    [err |-> "none",
     val |-> [j \in 1..Len(v) |-> Vec3Normalize(l.sums[j])],
     locals |-> l]

vertexNormals(v, inds) ==
    IF DerefThrows(v, inds)
    THEN [err |-> "TypeError", val |-> << >>, locals |-> [none |-> TRUE]]
    ELSE NormalizeSums(v, VertexNormalsLocals(v, inds))

-----------------------------------------------------------------------------
(* surfaceVariation *)

Vec3Dot(a, b) == NAdd(NAdd(NMul(a[1], b[1]), NMul(a[2], b[2])), NMul(a[3], b[3]))

\* the vector from the first corner of the triangle that starts at flat index i
\* to its corner number k (1 or 2): ( a[i+3k] - a[i], a[i+3k+1] - a[i+1], ... )
EdgeAt(a, i, k) ==
    << NSub(At(a, i + 3 * k), At(a, i)),
       NSub(At(a, i + 3 * k + 1), At(a, i + 1)),
       NSub(At(a, i + 3 * k + 2), At(a, i + 2)) >>

\* the matrix ( dot(p,p), dot(p,q), dot(p,q), dot(q,q) )
Gram(p, q) == << Vec3Dot(p, p), Vec3Dot(p, q), Vec3Dot(p, q), Vec3Dot(q, q) >>

\* mat2.invert( G, G ): G is left as it is when its determinant is 0 or NaN
Mat2Invert(a) ==
    LET det == NSub(NMul(a[1], a[4]), NMul(a[3], a[2]))
    IN  IF det = Zero \/ det = NaN THEN a
        ELSE LET inv == NDiv(Int2Num(1), det)
             IN  << NMul(a[4], inv), NMul(NNeg(a[2]), inv),
                    NMul(NNeg(a[3]), inv), NMul(a[1], inv) >>

\* mat2.multiply( res, a, b )
Mat2Multiply(a, b) ==
    << NAdd(NMul(a[1], b[1]), NMul(a[3], b[2])),
       NAdd(NMul(a[2], b[1]), NMul(a[4], b[2])),
       NAdd(NMul(a[1], b[3]), NMul(a[3], b[4])),
       NAdd(NMul(a[2], b[3]), NMul(a[4], b[4])) >>

TraceLimit == 1000

\* the clamp without its assignment: the trace is returned as it came
clampTrace_mut(trace) == trace

clampTrace(trace) ==
    IF NGt(trace, Int2Num(TraceLimit)) THEN Int2Num(TraceLimit) ELSE trace

\* the clamped trace of G^-1 * H of the triangle that starts at flat index i
TriangleTrace(v, vNorms, i) ==
    LET G == Gram(EdgeAt(v, i, 1), EdgeAt(v, i, 2))
        H == Gram(EdgeAt(vNorms, i, 1), EdgeAt(vNorms, i, 2))
        res == Mat2Multiply(Mat2Invert(G), H)
    IN  clampTrace(NAdd(res[1], res[4]))

\* one scalar stored per triangle instead of one per vertex of the triangle
TrackLargest_mut(st, trace) ==
    [ scalars |-> st.scalars \o << trace >>,
      largest |-> IF NGt(trace, st.largest) THEN trace ELSE st.largest,
      smallest |-> IF ~ NGt(trace, st.largest) /\ NLt(trace, st.smallest)
                   THEN trace ELSE st.smallest ]

\* one scalar per vertex of the triangle, and the running extrema
TrackLargest(st, trace) ==
    [ scalars |-> st.scalars \o << trace, trace, trace >>,
      largest |-> IF NGt(trace, st.largest) THEN trace ELSE st.largest,
      smallest |-> IF ~ NGt(trace, st.largest) /\ NLt(trace, st.smallest)
                   THEN trace ELSE st.smallest ]

RECURSIVE VariationLoop(_, _, _)
\* scalars, largest and smallest after the first m iterations of the first loop
VariationLoop(v, vNorms, m) ==
    IF m = 0
    THEN [scalars |-> << >>, largest |-> NegInf, smallest |-> PosInf]
    ELSE TrackLargest(VariationLoop(v, vNorms, m - 1),
                      TriangleTrace(v, vNorms, 9 * (m - 1)))

\* 1 - Math.exp(2.99572315 - 15*x) / 20.0, kept symbolic as [curved |-> x];
\* the curve is strictly increasing in x
ContrastCurve(x) ==
    IF x = NaN THEN NaN
    ELSE IF x = PosInf THEN Int2Num(1)
    ELSE IF x = NegInf THEN NegInf
    ELSE [curved |-> x]

\* scalars[i] /= largest, for every element
NormalizeLoop(scalars, largest) ==
    [j \in 1..Len(scalars) |-> NDiv(scalars[j], largest)]

\* the returned array, and the local variables when the function returns
CurveLoop(st, normalized) ==
    [ err |-> "none",
      val |-> [j \in 1..Len(normalized) |-> ContrastCurve(normalized[j])],
      locals |-> [ energies |-> st.scalars,
                   largest |-> st.largest,
                   smallest |-> st.smallest,
                   normalized |-> normalized ] ]

\* the second loop, from the state st the first loop ended in
SecondLoop(st) == CurveLoop(st, NormalizeLoop(st.scalars, st.largest))

surfaceVariation(v, vNorms) ==
    SecondLoop(VariationLoop(v, vNorms, (Len(v) + 8) \div 9))

-----------------------------------------------------------------------------
(* surfaceOrientation *)

\* An angle is kept as [q |-> k, in |-> b, lo |-> l, hi |-> h]: exactly
\* k * (pi / 4) when b = 0, a value strictly between k * (pi / 4) and
\* (k + 1) * (pi / 4) when b = 1.  For b = 1, l says that the value is above
\* k * (pi / 4) by less than the spacing of the doubles there, and h that it
\* is below (k + 1) * (pi / 4) by less than that.

\* 2^27: a ratio of at most 2^-54 between the components of a vector is below
\* half the spacing of the doubles at pi / 2, pi and 2 * pi
TinyScale == 134217728

\* p / q <= 2^-54, for p >= 0 and q > 0
TinyRatio(p, q) ==
    /\ NLt(p, q)
    /\ ~ NGt(NMul(p, Int2Num(TinyScale)), NDiv(q, Int2Num(TinyScale)))

ExactAngle(k) == [q |-> k, in |-> 0, lo |-> FALSE, hi |-> FALSE]

InsideAngle(k, l, h) == [q |-> k, in |-> 1, lo |-> l, hi |-> h]

\* the double nearest to the angle: a value closer to a multiple of pi / 4
\* than the doubles are spaced there is that multiple; around 0 the doubles
\* are dense and the value is kept
RoundAngle(angle) ==
    IF angle.hi /\ angle.q + 1 # 0 THEN ExactAngle(angle.q + 1)
    ELSE IF angle.lo /\ angle.q # 0 THEN ExactAngle(angle.q)
    ELSE angle

\* Math.atan2( y, x ) of the normalized ( x, y ), in [-pi, pi]; vec2.normalize
\* keeps the direction, and leaves ( 0, 0 ) when the squared length x*x + y*y
\* is not > 0: when a component is NaN or both are 0
Atan2Normalized(y, x) ==
    LET a == ToNumber(x)
        b == ToNumber(y)
    IN  IF a = NaN \/ b = NaN \/ (a = Zero /\ b = Zero) THEN ExactAngle(0)
        ELSE LET ax == IF NLt(a, Zero) THEN NNeg(a) ELSE a
                 ay == IF NLt(b, Zero) THEN NNeg(b) ELSE b
                 \* the angle of ( |x|, |y| ), in [0, pi / 2]
                 first == IF ay = Zero THEN ExactAngle(0)
                          ELSE IF ax = Zero THEN ExactAngle(2)
                          ELSE IF ay = ax THEN ExactAngle(1)
                          ELSE IF NLt(ay, ax)
                               THEN InsideAngle(0, TinyRatio(ay, ax), FALSE)
                          ELSE InsideAngle(1, FALSE, TinyRatio(ax, ay))
                 \* pi minus it
                 mirrored == [q |-> 4 - first.q - first.in, in |-> first.in,
                              lo |-> first.hi, hi |-> first.lo]
                 upper == IF NLt(a, Zero) THEN mirrored ELSE first
             IN  RoundAngle(IF NLt(b, Zero)
                            THEN [q |-> - upper.q - upper.in, in |-> upper.in,
                                  lo |-> upper.hi, hi |-> upper.lo]
                            ELSE upper)

\* the angle plus or minus 8 * (pi / 4), rounded to the nearest double: a
\* negative angle smaller than half the spacing of the doubles at 2 * pi
\* gives 2 * pi itself
angleRangeClamp(angle) ==
    IF angle.q > 8 \/ (angle.q = 8 /\ angle.in = 1)
    THEN RoundAngle([angle EXCEPT !.q = @ - 8])
    ELSE IF angle.q < 0
    THEN (IF angle.q = -1 /\ angle.hi THEN ExactAngle(8)
          ELSE [angle EXCEPT !.q = @ + 8])
    ELSE angle

NumOrientations == 8

\* Math.floor( theta / ( 2.0 * Math.PI / n ) ) for n = 8
OrientationRegion(theta) == theta.q

RECURSIVE OrientationLoop(_, _)
\* regions after the first m iterations of the loop
OrientationLoop(norms, m) ==
    IF m = 0 THEN << >>
    ELSE LET i == 3 * (m - 1)
             theta == angleRangeClamp(Atan2Normalized(At(norms, i + 1), At(norms, i)))
         IN  Append(OrientationLoop(norms, m - 1),
                    NDiv(Int2Num(OrientationRegion(theta)), Int2Num(NumOrientations - 1)))

surfaceOrientation(norms) ==
    [err |-> "none", val |-> OrientationLoop(norms, (Len(norms) + 2) \div 3)]

-----------------------------------------------------------------------------
(* Inputs *)

SeqsUpTo(S, n) == UNION { [1..m -> S] : m \in 0..n }

Coords == -1..MaxCoord

\* the points with small integer coordinates
Points3 == { << Int2Num(x), Int2Num(y), Int2Num(z) >> : x \in Coords, y \in Coords, z \in Coords }

NoLocals == [none |-> TRUE]

\* the result written into the parameter array vals instead of a new array
ReturnsWith_mut(name, r, l) ==
    /\ op' = name
    /\ ret' = r.val
    /\ err' = r.err
    /\ locals' = l
    /\ vals' = r.val
    /\ UNCHANGED <<verts, ind, uverts, unorms>>

\* the operation called name has returned (or thrown) r, whose local
\* variables are l
ReturnsWith(name, r, l) ==
    /\ op' = name
    /\ ret' = r.val
    /\ err' = r.err
    /\ locals' = l
    /\ UNCHANGED <<verts, ind, vals, uverts, unorms>>

\* the same, with the local variables that r records
ReturnsLocals(name, r) == ReturnsWith(name, r, r.locals)

\* the same, for an operation whose local variables are not recorded
Returns(name, r) == ReturnsWith(name, r, NoLocals)

-----------------------------------------------------------------------------
(* The point-set operations: centerPointCloud and getAabb on a point set *)

InitPoints ==
    /\ verts \in SeqsUpTo(Points3, MaxPoints)
    /\ ind = << >>
    /\ vals = << >>
    /\ uverts = << >>
    /\ unorms = << >>
    /\ op = "init"
    /\ ret = << >>
    /\ locals = NoLocals
    /\ err = "none"

\* centerPointCloud( verts ): translates the caller's points in place
CenterPointCloud ==
    /\ verts' = centerPointCloud(verts)
    /\ op' = "centerPointCloud"
    /\ ret' = << >>
    /\ locals' = [cov |-> centerOfVolume(verts), before |-> verts]
    /\ err' = "none"
    /\ UNCHANGED <<ind, vals, uverts, unorms>>

\* getAabb( verts )
GetAabb ==
    /\ op' = "getAabb"
    /\ ret' = getAabb(verts)
    /\ locals' = NoLocals
    /\ err' = "none"
    /\ UNCHANGED <<verts, ind, vals, uverts, unorms>>

NextPoints == CenterPointCloud \/ GetAabb

SpecPoints == InitPoints /\ [][NextPoints]_vars

-----------------------------------------------------------------------------
(* The operations on an indexed mesh: a point array and a triangle list *)

P(x, y, z) == << Int2Num(x), Int2Num(y), Int2Num(z) >>

\* the corners of the unit simplex: triangles over them differ in area and in
\* orientation
MeshPoints == { P(0, 0, 0), P(1, 0, 0), P(0, 1, 0), P(0, 0, 1) }

\* two points with six different coordinates
IndexPoints == { P(1, 2, 3), P(4, 5, 6) }

\* the index triplets over 0 .. hi
Triangles(hi) == { << a, b, c >> : a \in 0..hi, b \in 0..hi, c \in 0..hi }

RECURSIVE TriangleFlat(_)
\* the flat array of the indices of a triangle list
TriangleFlat(ts) ==
    IF ts = << >> THEN << >> ELSE ts[1] \o TriangleFlat(Tail(ts))

\* the per-vertex scalar array that holds each vertex's own number, so that
\* every value read from it tells where it was read
Ramp(n) == [j \in 1..n |-> Int2Num(j - 1)]

\* a mesh whose triangle indices are all elements of the point array
InitMesh ==
    /\ verts \in SeqsUpTo(MeshPoints, MaxVerts)
    /\ ind \in SeqsUpTo(Triangles(Len(verts) - 1), MaxTris)
    /\ vals = Ramp(Len(verts))
    /\ uverts = << >>
    /\ unorms = << >>
    /\ op = "init"
    /\ ret = << >>
    /\ locals = NoLocals
    /\ err = "none"

\* a mesh whose triangle indices go up to the length of the point array, one
\* past its last element
InitIndex ==
    /\ verts \in SeqsUpTo(IndexPoints, MaxVerts)
    /\ ind \in SeqsUpTo(Triangles(Len(verts)), MaxTris)
    /\ vals = Ramp(Len(verts))
    /\ uverts = << >>
    /\ unorms = << >>
    /\ op = "init"
    /\ ret = << >>
    /\ locals = NoLocals
    /\ err = "none"

\* unwrapVectorArray( verts, ind )
UnwrapVectorArray ==
    Returns("unwrapVectorArray", unwrapVectorArray(verts, ind))

\* unwrapArray( vals, ind )
UnwrapArray ==
    Returns("unwrapArray", unwrapArray(vals, ind))

\* faceNormals( verts, ind )
FaceNormals ==
    Returns("faceNormals", faceNormals(verts, ind))

\* vertexNormals( verts, ind )
VertexNormals ==
    ReturnsLocals("vertexNormals", vertexNormals(verts, ind))

NextMesh == FaceNormals \/ VertexNormals

SpecMesh == InitMesh /\ [][NextMesh]_vars

NextIndex == UnwrapVectorArray \/ UnwrapArray \/ FaceNormals \/ VertexNormals

SpecIndex == InitIndex /\ [][NextIndex]_vars

-----------------------------------------------------------------------------
(* The surface scalars: surfaceVariation and surfaceOrientation on unwrapped
   arrays *)

RECURSIVE Flatten(_)
\* the flat array of the coordinates of a sequence of points
Flatten(points) ==
    IF points = << >> THEN << >>
    ELSE points[1] \o Flatten(Tail(points))

\* surfaceVariation reads only the differences to the first corner of each
\* triangle, so the first corner is the origin and its normal is (0,0,1).
\* The second and third corner: the origin again (a triangle without area), a
\* point at distance 1 and a point at distance 1/32, on different axes.
VarCorners == << P(0, 0, 0), P(1, 0, 0), << Zero, Num(1, 32), Zero >> >>

\* the normals of the second and third corner
VarNormals == { P(0, 0, 1), P(1, 0, 0) }

\* a triangle of the unwrapped arrays: its three points and its three normals.
\* The trace of G^-1 * H is the same when the second and third corner are
\* exchanged together with their normals, so the corners are taken in the
\* order of VarCorners and the normals in every order.
VarTriangles ==
    UNION { { [ p |-> << P(0, 0, 0), VarCorners[a], VarCorners[b] >>,
                n |-> << P(0, 0, 1), n1, n2 >> ] :
                  b \in a..3, n1 \in VarNormals, n2 \in VarNormals } :
            a \in 1..3 }

RECURSIVE FlatPoints(_)
FlatPoints(ts) ==
    IF ts = << >> THEN << >> ELSE Flatten(ts[1].p) \o FlatPoints(Tail(ts))

RECURSIVE FlatNormals(_)
FlatNormals(ts) ==
    IF ts = << >> THEN << >> ELSE Flatten(ts[1].n) \o FlatNormals(Tail(ts))

\* the normals whose x and y are -1, 0 or 1: every multiple of pi / 4 and the
\* vector without azimuth
GridNormals == { P(x, y, 0) : x \in -1..1, y \in -1..1 }

\* the normals that leave an axis by the ratio 2^-54, on either side of it
NearAxisNormals ==
    { << IF k = 1 THEN Int2Num(sx * TinyScale) ELSE Num(sx, TinyScale),
         IF k = 1 THEN Num(sy, TinyScale) ELSE Int2Num(sy * TinyScale),
         Zero >> : sx \in {-1, 1}, sy \in {-1, 1}, k \in 1..2 }

AzimuthNormals == GridNormals \cup NearAxisNormals

\* the unwrapped points of up to MaxUnwrapped triangles and their normals
InitVariation ==
    /\ \E ts \in SeqsUpTo(VarTriangles, MaxUnwrapped) :
          /\ uverts = FlatPoints(ts)
          /\ unorms = FlatNormals(ts)
    /\ verts = << >>
    /\ ind = << >>
    /\ vals = << >>
    /\ op = "init"
    /\ ret = << >>
    /\ locals = NoLocals
    /\ err = "none"

\* an unwrapped normal array of up to MaxSlots normals
InitOrientation ==
    /\ \E ns \in SeqsUpTo(AzimuthNormals, MaxSlots) : unorms = Flatten(ns)
    /\ uverts = << >>
    /\ verts = << >>
    /\ ind = << >>
    /\ vals = << >>
    /\ op = "init"
    /\ ret = << >>
    /\ locals = NoLocals
    /\ err = "none"

InitSurface == InitVariation \/ InitOrientation

\* surfaceVariation( uverts, unorms )
SurfaceVariation ==
    ReturnsLocals("surfaceVariation", surfaceVariation(uverts, unorms))

\* surfaceOrientation( unorms )
SurfaceOrientation ==
    Returns("surfaceOrientation", surfaceOrientation(unorms))

NextSurface == SurfaceVariation \/ SurfaceOrientation

SpecSurface == InitSurface /\ [][NextSurface]_vars

-----------------------------------------------------------------------------
(* Every public operation, called in any order on the same arrays *)

\* what Delaunay.triangulate( verts ) can return: a flat array of indices into
\* verts, three per triangle
DelaunayOutputs(v) ==
    { TriangleFlat(ts) : ts \in SeqsUpTo(Triangles(Len(v) - 1), 1) }

\* the triangles of the unwrapped arrays with the corners (0,0,0), (1,0,0)
\* and (0,1/32,0)
FrameTriangles ==
    { t \in VarTriangles : t.p[2] = VarCorners[2] /\ t.p[3] = VarCorners[3] }

\* a point array, a triangle list with in-range indices, a scalar per point,
\* and the unwrapped points and normals of at most one triangle
InitAll ==
    /\ verts \in SeqsUpTo(IndexPoints, MaxPoints)
    /\ ind \in SeqsUpTo(Triangles(Len(verts) - 1), 1)
    /\ vals = Ramp(Len(verts))
    /\ \E ts \in SeqsUpTo(FrameTriangles, 1) :
          /\ uverts = FlatPoints(ts)
          /\ unorms = FlatNormals(ts)
    /\ op = "init"
    /\ ret = << >>
    /\ locals = NoLocals
    /\ err = "none"

\* triangulate( verts )
Triangulate ==
    \E u \in DelaunayOutputs(verts) :
        ReturnsWith("triangulate", triangulate(u), [unwrapped_tris |-> u])

NextAll ==
    \/ CenterPointCloud
    \/ GetAabb
    \/ Triangulate
    \/ UnwrapVectorArray
    \/ UnwrapArray
    \/ FaceNormals
    \/ VertexNormals
    \/ SurfaceVariation
    \/ SurfaceOrientation

SpecAll == InitAll /\ [][NextAll]_vars

\* where the storage of the value an operation returns comes from: "new" for
\* an array or object the operation allocates itself and fills with numbers
\* or with arrays it allocates itself, "none" when nothing is returned
ResultStorage(name) ==
    CASE name = "centerPointCloud" -> "none"
      [] name = "getAabb" -> "new"
      [] name = "unwrapVectorArray" -> "new"
      [] name = "unwrapArray" -> "new"
      [] name = "triangulate" -> "new"
      [] name = "faceNormals" -> "new"
      [] name = "vertexNormals" -> "new"
      [] name = "surfaceVariation" -> "new"
      [] name = "surfaceOrientation" -> "new"

-----------------------------------------------------------------------------
(* viewData (src/src/morphoviewer.js): the callback that runs when a file is
   loaded.  verts, ind, uverts and unorms are its variables verts, tris,
   verts_unwrapped and norms_unwrapped; locals holds its other variables, the
   loaded model, the statement it has reached (pc, a position in the list of
   its calls) and the calls it has made (history).  op and ret are the last
   call and what it returned; a call that throws ends the callback. *)

\* the calls of the callback of each file type, in program order
CallOrder_mut(type) ==
    IF type = "obj"
    THEN << "normals", "centerPointCloud", "unwrapVerts", "unwrapNorms",
            "surfaceVariation", "surfaceOrientation", "meshFromArray", "getAabb" >>
    ELSE IF type = "point cloud"
    THEN << "triangulate", "centerPointCloud", "normals", "unwrapVerts", "unwrapNorms",
            "surfaceVariation", "surfaceOrientation", "meshFromArray", "getAabb" >>
    ELSE << "readPly", "normals", "centerPointCloud", "unwrapVerts", "unwrapNorms",
            "surfaceVariation", "surfaceOrientation", "meshFromArray", "getAabb" >>

CallOrder(type) ==
    IF type = "obj"
    THEN << "normals", "centerPointCloud", "unwrapVerts", "unwrapNorms",
            "surfaceVariation", "surfaceOrientation", "meshFromArray", "getAabb" >>
    ELSE IF type = "point cloud"
    THEN << "centerPointCloud", "triangulate", "normals", "unwrapVerts", "unwrapNorms",
            "surfaceVariation", "surfaceOrientation", "meshFromArray", "getAabb" >>
    ELSE << "readPly", "normals", "centerPointCloud", "unwrapVerts", "unwrapNorms",
            "surfaceVariation", "surfaceOrientation", "meshFromArray", "getAabb" >>

\* the callback is about to make the call named call
AtCall(call) ==
    /\ "pc" \in DOMAIN locals
    /\ err = "none"
    /\ locals.pc <= Len(CallOrder(locals.type))
    /\ CallOrder(locals.type)[locals.pc] = call

\* the local variables after the call: the statement reached and the calls made
Advance(l, call) == [l EXCEPT !.pc = @ + 1, !.history = Append(@, call)]

\* the points a loader supplies: the first n of these points of the plane
\* z = 0, whose triangles have the normals (0,0,1), (0,0,-1) or none
ViewPoints == << P(0, 0, 0), P(1, 0, 0), P(0, 1, 0), P(1, 1, 0), P(2, 0, 0) >>

\* the triangles a loader or the triangulation supplies over n points: the
\* index triplets in increasing order, and the triplet that repeats point 0
ViewTriangles(n) ==
    { t \in Triangles(n - 1) : (t[1] < t[2] /\ t[2] < t[3]) \/ t = << 0, 0, 0 >> }

\* the normals a file holds, one per point
FileNormals(n) == [j \in 1..n |-> P(0, 0, 1)]

NoArray == << >>

\* the callback starts with the model of a loaded file: the points, the
\* triangles (for a point cloud, the ones Delaunay.triangulate will find) and,
\* when the file has them, the normals
InitView ==
    \E type \in {"obj", "point cloud", "ply"} :
    \E n \in 0..MaxVerts :
    \E ts \in SeqsUpTo(ViewTriangles(n), MaxTris) :
    \E withNormals \in BOOLEAN :
        /\ (type = "point cloud") => ~ withNormals
        /\ verts = (IF type = "ply" THEN NoArray ELSE SubSeq(ViewPoints, 1, n))
        /\ ind = (IF type = "obj" THEN ts ELSE NoArray)
        /\ vals = NoArray
        /\ uverts = NoArray
        /\ unorms = NoArray
        /\ op = "init"
        /\ ret = NoArray
        /\ err = "none"
        /\ locals = [ type |-> type,
                      pc |-> 1,
                      history |-> << >>,
                      model |-> [ points |-> SubSeq(ViewPoints, 1, n),
                                  faces |-> ts,
                                  hasNormals |-> withNormals,
                                  normals |-> FileNormals(n) ],
                      norms |-> NoArray,
                      curvature |-> NoArray,
                      orientation |-> NoArray,
                      handed |-> FALSE ]

\* the integer whose square is i
ExactRoot(i) == CHOOSE k \in 0..i : k * k = i

\* the number a signed square root stands for, when its square is the square
\* of a rational
SurdToNumber(x) ==
    IF ~ IsFinite(x.sq) THEN x.sq
    ELSE Num(x.sgn * ExactRoot(x.sq.n), ExactRoot(x.sq.d))

\* the normals vertexNormals returns, as numbers
NormalsAsNumbers(norms) ==
    [j \in 1..Len(norms) |-> [k \in 1..3 |-> SurdToNumber(norms[j][k])]]

\* norms of the ply callback when the file has normals: one entry for each
\* i below length, which holds the number of faces at that point
PlyNormals(normals, length) ==
    [j \in 1..length |->
        IF j <= Len(normals) THEN normals[j]
        ELSE << UndefinedNum, UndefinedNum, UndefinedNum >>]

\* the callback has made the call named call, which returned (or threw) r;
\* l holds the local variables after it
ViewStep(call, r, l) ==
    /\ op' = call
    /\ ret' = r.val
    /\ err' = r.err
    /\ locals' = Advance(l, call)

\* the function returned val
Returned(val) == [err |-> "none", val |-> val]

\* norms = tools.vertexNormals( verts, tris ), which returned (or threw) r
ViewVertexNormals(r) ==
    ViewStep("vertexNormals", r,
             [locals EXCEPT !.norms = IF r.err = "none" THEN NormalsAsNumbers(r.val)
                                      ELSE NoArray])

\* surfaceVariation returned r
ViewCurvature(r) ==
    ViewStep("surfaceVariation", r, [locals EXCEPT !.curvature = r.val])

\* surfaceOrientation returned r
ViewOrientation(r) ==
    ViewStep("surfaceOrientation", r, [locals EXCEPT !.orientation = r.val])

\* ply: verts and tris are built from the arrays of the model
ViewReadPly ==
    /\ AtCall("readPly")
    /\ verts' = locals.model.points
    /\ ind' = locals.model.faces
    /\ ViewStep("readPly", Returned(NoArray), locals)
    /\ UNCHANGED <<vals, uverts, unorms>>

\* norms: taken from the file when it has normals, computed by vertexNormals
\* otherwise
ViewNormals ==
    /\ AtCall("normals")
    /\ IF locals.model.hasNormals
       THEN ViewStep("normals",
                     Returned(NoArray),
                     [locals EXCEPT !.norms =
                         IF locals.type = "ply"
                         THEN PlyNormals(locals.model.normals, Len(ind))
                         ELSE locals.model.normals])
       ELSE ViewVertexNormals(vertexNormals(verts, ind))
    /\ UNCHANGED <<verts, ind, vals, uverts, unorms>>

\* tools.centerPointCloud( verts ); in the obj and point cloud callbacks verts
\* is the array of the model itself
ViewCenter ==
    /\ AtCall("centerPointCloud")
    /\ verts' = centerPointCloud(verts)
    /\ ViewStep("centerPointCloud", Returned(NoArray),
                IF locals.type = "ply" THEN locals
                ELSE [locals EXCEPT !.model.points = centerPointCloud(verts)])
    /\ UNCHANGED <<ind, vals, uverts, unorms>>

\* tris = tools.triangulate( verts )
ViewTriangulate ==
    /\ AtCall("triangulate")
    /\ ind' = triangulate(TriangleFlat(locals.model.faces)).val
    /\ ViewStep("triangulate", Returned(ind'), locals)
    /\ UNCHANGED <<verts, vals, uverts, unorms>>

\* verts_unwrapped = tools.unwrapVectorArray( verts, tris )
ViewUnwrapVerts ==
    /\ AtCall("unwrapVerts")
    /\ uverts' = unwrapVectorArray(verts, ind).val
    /\ ViewStep("unwrapVerts", unwrapVectorArray(verts, ind), locals)
    /\ UNCHANGED <<verts, ind, vals, unorms>>

\* norms_unwrapped = tools.unwrapVectorArray( norms, tris )
ViewUnwrapNorms ==
    /\ AtCall("unwrapNorms")
    /\ unorms' = unwrapVectorArray(locals.norms, ind).val
    /\ ViewStep("unwrapNorms", unwrapVectorArray(locals.norms, ind), locals)
    /\ UNCHANGED <<verts, ind, vals, uverts>>

\* curvature = tools.surfaceVariation( verts_unwrapped, norms_unwrapped )
ViewSurfaceVariation ==
    /\ AtCall("surfaceVariation")
    /\ ViewCurvature(surfaceVariation(uverts, unorms))
    /\ UNCHANGED <<verts, ind, vals, uverts, unorms>>

\* orientation = tools.surfaceOrientation( norms_unwrapped )
ViewSurfaceOrientation ==
    /\ AtCall("surfaceOrientation")
    /\ ViewOrientation(surfaceOrientation(unorms))
    /\ UNCHANGED <<verts, ind, vals, uverts, unorms>>

\* mesh.meshFromArray( verts_unwrapped, norms_unwrapped, curvature, orientation )
ViewMeshFromArray ==
    /\ AtCall("meshFromArray")
    /\ ViewStep("meshFromArray", Returned(NoArray), [locals EXCEPT !.handed = TRUE])
    /\ UNCHANGED <<verts, ind, vals, uverts, unorms>>

\* aabb = tools.getAabb( verts )
ViewGetAabb ==
    /\ AtCall("getAabb")
    /\ ViewStep("getAabb", Returned(getAabb(verts)), locals)
    /\ UNCHANGED <<verts, ind, vals, uverts, unorms>>

NextView ==
    \/ ViewReadPly
    \/ ViewNormals
    \/ ViewCenter
    \/ ViewTriangulate
    \/ ViewUnwrapVerts
    \/ ViewUnwrapNorms
    \/ ViewSurfaceVariation
    \/ ViewSurfaceOrientation
    \/ ViewMeshFromArray
    \/ ViewGetAabb

SpecView == InitView /\ [][NextView]_vars

-----------------------------------------------------------------------------
(* Properties of the point-set operations *)

RECURSIVE SumCoord(_, _)
\* the sum of coordinate k over all the points
SumCoord(points, k) ==
    IF points = << >> THEN Zero
    ELSE NAdd(points[1][k], SumCoord(Tail(points), k))

Axes == 1..3

Origin == << Zero, Zero, Zero >>

\* C2: after centerPointCloud on a non-empty point set the coordinates sum to
\* zero on each axis, the recomputed centroid is (0,0,0), and every point has
\* been translated by one vector t with n * t = the sum of the original points
\* (the centroid of the original points).
C2_CenteredAtOrigin ==
    (op = "centerPointCloud" /\ Len(verts) > 0) =>
        /\ \A k \in Axes : SumCoord(verts, k) = Zero
        /\ centerOfVolume(verts) = Origin
        /\ Len(verts) = Len(locals.before)
        /\ \A k \in Axes :
              LET t == NSub(locals.before[1][k], verts[1][k])
              IN  /\ \A i \in 1..Len(verts) : NSub(locals.before[i][k], verts[i][k]) = t
                  /\ NMul(Int2Num(Len(verts)), t) = SumCoord(locals.before, k)

\* two distinct points were moved by a centroid that is not an integer
C2_Witness ==
    /\ op = "centerPointCloud"
    /\ Len(verts) = 2
    /\ verts # locals.before
    /\ \E k \in Axes : locals.cov[k].d = 2

\* C3: the center returned by getAabb is (min + max) / 2 on each axis
C3_CenterIsMidpoint ==
    op = "getAabb" =>
        \A k \in Axes : ret.center[k] = NDiv(NAdd(ret.min[k], ret.max[k]), Two)

\* C4: for a non-empty point set, min and max returned by getAabb are the
\* smallest and the largest coordinate on each axis (no point outside, each
\* bound attained), and length squared is the sum of the squared extents.
C4_AabbExtrema ==
    (op = "getAabb" /\ Len(verts) > 0) =>
        /\ \A k \in Axes :
              /\ \A i \in 1..Len(verts) :
                    /\ ~ NLt(verts[i][k], ret.min[k])
                    /\ ~ NGt(verts[i][k], ret.max[k])
              /\ \E i \in 1..Len(verts) : verts[i][k] = ret.min[k]
              /\ \E i \in 1..Len(verts) : verts[i][k] = ret.max[k]
        /\ ret.length.sgn >= 0
        /\ ret.length.sq =
              NAdd(NAdd(NMul(NSub(ret.max[1], ret.min[1]), NSub(ret.max[1], ret.min[1])),
                        NMul(NSub(ret.max[2], ret.min[2]), NSub(ret.max[2], ret.min[2]))),
                   NMul(NSub(ret.max[3], ret.min[3]), NSub(ret.max[3], ret.min[3])))

\* a box that is flat on x and spans both sides of 0 on z
C4_Witness ==
    /\ op = "getAabb"
    /\ Len(verts) = 2
    /\ ret.min[3] # ret.max[3]
    /\ NLt(ret.min[3], Zero)
    /\ NGt(ret.max[3], Zero)
    /\ ret.min[1] = ret.max[1]

-----------------------------------------------------------------------------
(* Properties of the operations on an indexed mesh *)

\* every index of every triangle is an element of the point array
AllInRange == \A i \in 1..Len(ind) : TriInRange(verts, ind[i])

\* some triangle references the index one past the last point
RefersPastEnd == \E i \in 1..Len(ind) : \E k \in 1..3 : ind[i][k] = Len(verts)

\* triangle t has vertex j as a corner
HasCorner(t, j) == t[1] = j \/ t[2] = j \/ t[3] = j

\* C1: with every index in range, unwrapVectorArray returns 9 * |inds| numbers
\* and unwrapArray 3 * |inds| values; the slot of triangle i, corner k holds
\* the value of v at inds[i][k] (x, y, z in this order for unwrapVectorArray),
\* the triangles in input order.
C1_UnwrapLayout ==
    AllInRange =>
        /\ op = "unwrapVectorArray" =>
              /\ err = "none"
              /\ Len(ret) = 9 * Len(ind)
              /\ \A i \in 0..(Len(ind) - 1) : \A k \in 0..2 : \A c \in 0..2 :
                    ret[9 * i + 3 * k + c + 1] = verts[ind[i + 1][k + 1] + 1][c + 1]
        /\ op = "unwrapArray" =>
              /\ err = "none"
              /\ Len(ret) = 3 * Len(ind)
              /\ \A i \in 0..(Len(ind) - 1) : \A k \in 0..2 :
                    ret[3 * i + k + 1] = vals[ind[i + 1][k + 1] + 1]

\* two different triangles over three points, not all the same, were unwrapped
C1_Witness ==
    /\ op = "unwrapVectorArray"
    /\ err = "none"
    /\ Len(verts) = 3
    /\ Len(ind) = 2
    /\ ind[1] = << 0, 1, 2 >>
    /\ ind[2] = << 2, 0, 0 >>
    /\ verts[1] # verts[2]
    /\ Len(ret) = 18

\* C7: when a triangle references the index |PointSet|, unwrapVectorArray,
\* unwrapArray, faceNormals and vertexNormals raise IndexOutOfRange
C7_IndexOutOfRangeRaised ==
    (op \in {"unwrapVectorArray", "unwrapArray", "faceNormals", "vertexNormals"}
        /\ RefersPastEnd) => err = "IndexOutOfRange"

\* the sum of 2 * (raw cross product) over the first m triangles that have
\* vertex j as a corner
RECURSIVE IncidentSum(_, _)
IncidentSum(j, m) ==
    IF m = 0 THEN Vec3Zero
    ELSE IF HasCorner(ind[m], j)
         THEN LET c == TriCross(verts, ind[m])
              IN  Vec3Add(IncidentSum(j, m - 1), Vec3Add(c, c))
         ELSE IncidentSum(j, m - 1)

\* the three corners of every triangle are three different vertices
DistinctCorners ==
    \A i \in 1..Len(ind) :
        ind[i][1] # ind[i][2] /\ ind[i][1] # ind[i][3] /\ ind[i][2] # ind[i][3]

\* C5: the vector vertexNormals normalizes for vertex i is the sum of the raw
\* cross products of exactly the triangles incident to i, each counted twice
\* (stated for triangle lists whose triangles have three different corners)
C5_SumOfIncidentFaces ==
    (op = "vertexNormals" /\ err = "none" /\ DistinctCorners) =>
        \A j \in 1..Len(verts) : locals.sums[j] = IncidentSum(j - 1, Len(ind))

\* the last triangle of the list that has vertex j as a corner
LastTriangle(j) ==
    CHOOSE m \in 1..Len(ind) :
        /\ HasCorner(ind[m], j)
        /\ \A m2 \in (m + 1)..Len(ind) : ~ HasCorner(ind[m2], j)

\* C6: after faceNormals the slot of every vertex that some triangle refers to
\* holds the normal of the last triangle of the list that contains the vertex;
\* when a triangle is processed its three corner slots receive its normal.
C6_LastTriangleWins ==
    (op = "faceNormals" /\ err = "none") =>
        /\ Len(ret) = Len(verts)
        /\ \A j \in 0..(Len(verts) - 1) :
              (\E m \in 1..Len(ind) : HasCorner(ind[m], j)) =>
                  ret[j + 1] = Vec3Normalize(TriCross(verts, ind[LastTriangle(j)]))
        /\ \A m \in 1..Len(ind) :
              LET after == FaceNormalsLoop(verts, ind, m)
                  n == Vec3Normalize(TriCross(verts, ind[m]))
              IN  /\ after[ind[m][1] + 1] = n
                  /\ after[ind[m][2] + 1] = n
                  /\ after[ind[m][3] + 1] = n

\* two triangles with three different corners each and with different
\* normals share their vertices
C6_Witness ==
    /\ op = "faceNormals"
    /\ err = "none"
    /\ Len(ind) = 2
    /\ DistinctCorners
    /\ Vec3Normalize(TriCross(verts, ind[1])) # Vec3Normalize(TriCross(verts, ind[2]))
    /\ Vec3Normalize(TriCross(verts, ind[1])) # Vec3Normalize(Vec3Zero)
    /\ Vec3Normalize(TriCross(verts, ind[2])) # Vec3Normalize(Vec3Zero)

\* vertex j is a corner of some triangle
Incident(j) == \E m \in 1..Len(ind) : HasCorner(ind[m], j)

\* C13: with in-range indices, the arrays faceNormals and vertexNormals return
\* have exactly as many slots as the point array; in slot i faceNormals leaves
\* a normal exactly when point i is a corner of some triangle, and
\* vertexNormals a vector of three components
C13_OneSlotPerPoint ==
    (op \in {"faceNormals", "vertexNormals"} /\ AllInRange) =>
        /\ err = "none"
        /\ Len(ret) = Len(verts)
        /\ \A j \in 1..Len(ret) :
              IF op = "faceNormals"
              THEN (ret[j] # << >>) = Incident(j - 1)
              ELSE Len(ret[j]) = 3

\* three points, one triangle list that leaves the last point out: the
\* returned array still has three slots
C13_Witness ==
    /\ op = "faceNormals"
    /\ Len(verts) = 3
    /\ Len(ind) = 2
    /\ Incident(0)
    /\ Incident(1)
    /\ ~ Incident(2)
    /\ Len(ret) = 3

\* the two other corners of triangle t, seen from its corner j, in the order
\* of the triangle
OtherCorners(t, j) ==
    IF t[1] = j THEN << t[2], t[3] >>
    ELSE IF t[2] = j THEN << t[1], t[3] >>
    ELSE << t[1], t[2] >>

RECURSIVE NeighboursOf(_, _)
\* the other corners of the triangles among the first m that have vertex j as
\* a corner, triangle by triangle
NeighboursOf(j, m) ==
    IF m = 0 THEN << >>
    ELSE IF HasCorner(ind[m], j)
         THEN NeighboursOf(j, m - 1) \o OtherCorners(ind[m], j)
         ELSE NeighboursOf(j, m - 1)

\* the number of triangles that have vertex j as a corner
IncidentCount(j) == Cardinality({ m \in 1..Len(ind) : HasCorner(ind[m], j) })

C15_IsolatedVertexReported ==
    (op = "vertexNormals" /\ AllInRange /\ \E j \in 1..Len(verts) : ~ Incident(j - 1)) =>
        err = "DegenerateGeometry"

-----------------------------------------------------------------------------
(* Properties of the surface scalars *)

\* the number of triangles of the unwrapped point array
NumTriangles == Len(uverts) \div 9

\* C8: when the largest clamped energy over a non-empty triangle list is zero,
\* surfaceVariation reports ZeroNormalizationRange instead of dividing by it
C8_ZeroRangeReported ==
    (op = "surfaceVariation" /\ NumTriangles > 0 /\ locals.largest = Zero) =>
        err = "ZeroNormalizationRange"

\* C9: every stored energy is at most 1000; the divisor is the maximum of the
\* stored energies; when it is positive every normalized scalar, the argument
\* of the contrast curve, is at most 1 and at least one of them is 1.
C9_ClampedAndNormalized ==
    (op = "surfaceVariation" /\ NumTriangles > 0) =>
        /\ \A j \in 1..Len(locals.energies) :
              /\ ~ NGt(locals.energies[j], Int2Num(1000))
              /\ ~ NGt(locals.energies[j], locals.largest)
        /\ \E j \in 1..Len(locals.energies) : locals.energies[j] = locals.largest
        /\ NGt(locals.largest, Zero) =>
              /\ \A j \in 1..Len(ret) :
                    /\ ret[j] = [curved |-> locals.normalized[j]]
                    /\ locals.normalized[j] = NDiv(locals.energies[j], locals.largest)
                    /\ ~ NGt(locals.normalized[j], One)
              /\ \E j \in 1..Len(ret) : locals.normalized[j] = One

\* one triangle was clamped to 1000 and another one, with a smaller positive
\* energy, was normalized to less than 1
C9_Witness ==
    /\ op = "surfaceVariation"
    /\ NumTriangles = 2
    /\ locals.largest = Int2Num(1000)
    /\ \E j \in 1..Len(ret) :
          /\ NGt(locals.normalized[j], Zero)
          /\ NLt(locals.normalized[j], One)

\* C10: for 9 * T numbers surfaceVariation returns 3 * T scalars, the three
\* scalars of a triangle holding the same value (NaN three times when the
\* divisor is 0); for 3 * S numbers surfaceOrientation returns S scalars.
C10_OneScalarPerSlot ==
    /\ (op = "surfaceVariation" /\ Len(uverts) = 9 * NumTriangles) =>
          /\ Len(ret) = 3 * NumTriangles
          /\ \A t \in 0..(NumTriangles - 1) :
                ret[3 * t + 1] = ret[3 * t + 2] /\ ret[3 * t + 2] = ret[3 * t + 3]
    /\ (op = "surfaceOrientation" /\ Len(unorms) % 3 = 0) =>
          Len(ret) = Len(unorms) \div 3

\* two triangles with different scalars
C10_Witness ==
    /\ op = "surfaceVariation"
    /\ NumTriangles = 2
    /\ Len(ret) = 6
    /\ ret[1] # ret[4]
    /\ ret[1] # NaN
    /\ ret[4] # NaN

\* the levels 0/7, 1/7, ..., 7/7
OrientationLevels ==
    { NDiv(Int2Num(k), Int2Num(NumOrientations - 1)) : k \in 0..(NumOrientations - 1) }

\* C11: every value surfaceOrientation returns is one of the 8 levels 0/7 ..
\* 7/7 (the bin index never reaches 8), and slots that hold the same normal
\* get the same value
C11_EightLevels ==
    (op = "surfaceOrientation" /\ Len(unorms) % 3 = 0) =>
        /\ \A j \in 1..Len(ret) : ret[j] \in OrientationLevels
        /\ \A i, j \in 1..Len(ret) :
              (unorms[3 * i - 2] = unorms[3 * j - 2] /\ unorms[3 * i - 1] = unorms[3 * j - 1])
                  => ret[i] = ret[j]

-----------------------------------------------------------------------------
(* Properties of all operations *)

PureOperations ==
    { "unwrapVectorArray", "unwrapArray", "getAabb", "triangulate", "faceNormals",
      "vertexNormals", "surfaceVariation", "surfaceOrientation" }

\* a step of an operation other than centerPointCloud leaves every input
\* array as it was and returns storage of its own
PureStep ==
    op' \in PureOperations =>
        /\ UNCHANGED <<verts, ind, vals, uverts, unorms>>
        /\ ResultStorage(op') = "new"

-----------------------------------------------------------------------------
(* Properties of viewData *)

\* the stage of the data flow a call of the callback belongs to
Stage(call) ==
    CASE call = "centerPointCloud" -> "centered"
      [] call = "triangulate" -> "triangulated"
      [] call \in {"unwrapVerts", "unwrapNorms"} -> "unwrapped"
      [] call \in {"normals", "vertexNormals"} -> "normals"
      [] call \in {"surfaceVariation", "surfaceOrientation"} -> "scalars"
      [] call = "meshFromArray" -> "handed"
      [] OTHER -> "none"

\* the place of a stage in the order raw points, centered points,
\* triangulated, unwrapped arrays, normals, scalars, hand-off
StageRank(stage) ==
    CASE stage = "centered" -> 1
      [] stage = "triangulated" -> 2
      [] stage = "unwrapped" -> 3
      [] stage = "normals" -> 4
      [] stage = "scalars" -> 5
      [] stage = "handed" -> 6
      [] OTHER -> 0

\* the calls made so far that belong to a stage, in the order they were made
StagesRun == SelectSeq(locals.history, LAMBDA call : Stage(call) # "none")

\* whenever a call of stage b has been made, a call of stage a was made before
Precedes(a, b) ==
    \A j \in 1..Len(locals.history) :
        Stage(locals.history[j]) = b =>
            \E i \in 1..(j - 1) : Stage(locals.history[i]) = a

\* whenever the call b has been made, the call a was made before
CalledBefore(a, b) ==
    \A j \in 1..Len(locals.history) :
        locals.history[j] = b => \E i \in 1..(j - 1) : locals.history[i] = a

C17_OneNormalPerVertex ==
    op = "unwrapNorms" => Len(locals.norms) = Len(verts)

=============================================================================
